---- MODULE Spec2Model ----
(***************************************************************************)
(* A model of dsc's remote upgrade orchestrator.                           *)
(*                                                                         *)
(* The repository holds two implementations of the orchestrator:           *)
(*   impl = "main" : src/src/main.rs            (update_all with audit log) *)
(*   impl = "cmd"  : src/src/commands/update.rs (rollback, target checks)   *)
(* Both are modelled; impl is drawn in Init and never changes.             *)
(*                                                                         *)
(* Specifications:                                                         *)
(*   Spec        update_one, and the sequential update_all, driving        *)
(*               run_update per host and the changelog step                *)
(*   SpecLog     main.rs's update_all on a log path that exists already    *)
(*   SpecParallel the thread-spawning code of update_all                   *)
(*   SpecParse   parse_reclaimed_space on bounded cleanup outputs          *)
(*   SpecTarget  remote command execution on bounded target strings        *)
(*   SpecPayload changelog payload construction on bounded Outcomes        *)
(*   SpecTail    run_ssh_command_with_tail: reader threads and the tail    *)
(*                                                                         *)
(* Option<T> is modelled as a sequence of length <= 1: None is << >> and   *)
(* Some(v) is <<v>>.  Strings that the code inspects character by          *)
(* character are sequences of one-character strings.                       *)
(***************************************************************************)
EXTENDS Integers, Sequences, FiniteSets, TLC

VARIABLES
    impl,            \* which implementation runs: "main" or "cmd"
    env,             \* environment: [rollback, bypass, marker] (see EnvSet)
    name,            \* CLI argument: "all" (update_all) or "one" (update_one)
    post_changelog,  \* CLI flag --post-changelog
    concurrent,      \* CLI flag --concurrent
    pc,              \* position of the single caller thread
    cur,             \* index of the host update_all is processing
    attempts,        \* run_update: the local attempts of the wait loop
    meta,            \* run_update: the locals that become UpdateMetadata
    trace,           \* history: collaborator calls of the current run_update
    ret,             \* what run_update returned for host cur: "pending", "ok" or an error
    outcome,         \* Option<UpdateMetadata> returned for host cur
    log,             \* audit log: the lines this run has appended so far
    file,            \* the file at the audit log's path (see InitFile)
    result,          \* what update_all returned: "running", "ok" or an error
    posts,           \* the posts create_post has made, in order (see Post)
    stdout,          \* the DSC_TEST_POST_ID lines printed, in order
    pub,             \* history: what the changelog publishing has done (see PubEv)
    par,             \* the thread-spawning code of update_all (see NoPar)
    call             \* record of a pure-function call (SpecParse, SpecTarget, SpecPayload)

vars == <<impl, env, name, post_changelog, concurrent, pc, cur, attempts, meta, trace,
          ret, outcome, log, file, result, posts, stdout, pub, par, call>>

\* everything but call
fleetVars == <<impl, env, name, post_changelog, concurrent, pc, cur, attempts, meta,
               trace, ret, outcome, log, file, result, posts, stdout, pub, par>>

-----------------------------------------------------------------------------
(* Bounds and program constants *)

NumHosts == 2

\* the largest --max
MaxMax == 2

max_attempts == 12

None == << >>

Some(v) == <<v>>

Hosts == 1..NumHosts

Impls == {"main", "cmd"}

\* rollback: DSC_SSH_OS_UPDATE_ROLLBACK_CMD is set to a non-blank command.
\* bypass:   DSC_SSH_OS_UPDATE_CMD equals "echo OS packages updated".
\* marker:   DSC_TEST_MARKER is set.
EnvSet == [rollback : BOOLEAN, bypass : BOOLEAN, marker : BOOLEAN]

Names == {"all", "one"}

AppVersions == {"3.1", "3.2"}

OsVersions == {"Ubuntu 22.04"}

NoCall == [op |-> "none"]

-----------------------------------------------------------------------------
(* Strings as sequences of characters *)

\* The literal "Total reclaimed space:" abbreviated to two characters; like
\* the literal it has no proper prefix that is also a suffix.
Marker == <<"T", ":">>

IsWhitespace(ch) == ch \in {" ", "\t", "\n", "\r"}

RECURSIVE TrimStart(_)
TrimStart(s) ==
    IF s = << >> THEN << >>
    ELSE IF IsWhitespace(Head(s)) THEN TrimStart(Tail(s)) ELSE s

RECURSIVE TrimEnd(_)
TrimEnd(s) ==
    IF s = << >> THEN << >>
    ELSE IF IsWhitespace(s[Len(s)]) THEN TrimEnd(SubSeq(s, 1, Len(s) - 1)) ELSE s

\* str::trim
Trim(s) == TrimEnd(TrimStart(s))

StartsWith(s, p) == Len(s) >= Len(p) /\ SubSeq(s, 1, Len(p)) = p

\* Index of the first occurrence of p in s at or after position i, 0 if none.
RECURSIVE FindFrom(_, _, _)
FindFrom(s, p, i) ==
    IF i + Len(p) - 1 > Len(s) THEN 0
    ELSE IF SubSeq(s, i, i + Len(p) - 1) = p THEN i
    ELSE FindFrom(s, p, i + 1)

Contains(s, p) == FindFrom(s, p, 1) # 0

\* str::split(p) collected: the pieces of s between occurrences of p.
RECURSIVE Split(_, _)
Split(s, p) ==
    LET k == FindFrom(s, p, 1)
    IN  IF k = 0 THEN <<s>>
        ELSE <<SubSeq(s, 1, k - 1)>> \o Split(SubSeq(s, k + Len(p), Len(s)), p)

\* str::lines: the pieces ended by "\n" lose that "\n" and a "\r" before it;
\* an unterminated last piece is kept as it is, an empty one is no line.
StripCr(l) ==
    IF l # << >> /\ l[Len(l)] = "\r" THEN SubSeq(l, 1, Len(l) - 1) ELSE l

Lines(s) ==
    LET parts == Split(s, <<"\n">>)
        n     == Len(parts)
        ended == [i \in 1..(n - 1) |-> StripCr(parts[i])]
    IN  IF parts[n] = << >> THEN ended ELSE ended \o <<parts[n]>>

\* line.split("Total reclaimed space:").nth(1)
SplitNth1(line) ==
    LET pieces == Split(line, Marker)
    IN  IF Len(pieces) >= 2 THEN Some(pieces[2]) ELSE None

\* Iterator::find_map over the lines
RECURSIVE FindMapNth1(_)
FindMapNth1(ls) ==
    IF ls = << >> THEN None
    ELSE IF SplitNth1(Head(ls)) # None THEN SplitNth1(Head(ls))
    ELSE FindMapNth1(Tail(ls))

parse_reclaimed_space(output) ==
    LET found == FindMapNth1(Lines(output))
    IN  IF found = None THEN None ELSE Some(Trim(found[1]))

-----------------------------------------------------------------------------
(* The Upgrade Step Sequencer: run_update, one action per collaborator call *)

Ev(step, ok) == [step |-> step, ok |-> ok]

\* struct UpdateMetadata, with the values its fields have before they are set
InitMeta ==
    [before_version    |-> None,
     after_version     |-> None,
     reclaimed_space   |-> None,
     before_os_version |-> None,
     after_os_version  |-> None,
     os_updated        |-> FALSE,
     server_rebooted   |-> FALSE]

\* What the cleanup command may print: a marker line with a value, no
\* marker at all, a marker with nothing after it.
CleanupOutputs ==
    { <<"T", ":", " ", "9", "\n">>, <<"o", "k", "\n">>, <<"T", ":", "\n">> }

\* DiscourseClient::fetch_version: Err, Ok(None) or Ok(Some(version))
FetchVersionResults ==
    {[ok |-> FALSE, v |-> None], [ok |-> TRUE, v |-> None]}
        \cup {[ok |-> TRUE, v |-> Some(x)] : x \in AppVersions}

\* get_os_version: the primary command, then the fallback if it failed;
\* never an Err.  evs are the remote commands it ran.
GetOsVersionRuns ==
    {[evs |-> <<Ev("os_version", TRUE)>>, v |-> Some(o)] : o \in OsVersions}
        \cup {[evs |-> <<Ev("os_version", FALSE), Ev("os_version_fallback", TRUE)>>,
               v |-> Some(o)] : o \in OsVersions}
        \cup {[evs |-> <<Ev("os_version", FALSE), Ev("os_version_fallback", FALSE)>>,
               v |-> None]}

\* os_update_rollback_cmd(): Some(command) iff the variable is set and not blank
os_update_rollback_cmd == IF env.rollback THEN Some("rollback") ELSE None

\* run_update goes on to its next collaborator call.
Step(newpc, evs, newmeta, newattempts) ==
    /\ pc' = newpc
    /\ trace' = trace \o evs
    /\ meta' = newmeta
    /\ attempts' = newattempts
    /\ UNCHANGED <<impl, env, name, post_changelog, concurrent, cur, ret, outcome,
                   log, file, result, posts, stdout, pub, par, call>>

\* run_update returns to its caller: Err(e), or Ok(metadata) when e = "ok".
Return(e, evs, newmeta, newattempts) ==
    /\ pc' = "returned"
    /\ ret' = e
    /\ outcome' = IF e = "ok" THEN Some(newmeta) ELSE None
    /\ trace' = trace \o evs
    /\ meta' = newmeta
    /\ attempts' = newattempts
    /\ UNCHANGED <<impl, env, name, post_changelog, concurrent, cur,
                   log, file, result, posts, stdout, pub, par, call>>

\* What one probe may give: Ok(true), Ok(false) (ssh exits non-zero) or
\* Err (ssh cannot be run, the target is refused).
ProbeResults == {"up", "down", "error"}

\* Mutant of ProbeStep: the loop bound is off by one (<= for <).
ProbeStep_OffByOne(r) ==
    IF r = "up"
    THEN Step("app_upgrade", <<Ev("probe", TRUE)>>, meta, attempts)
    ELSE IF attempts + 1 <= max_attempts
         THEN Step("probe", <<Ev("probe", FALSE), Ev("sleep", TRUE)>>, meta, attempts + 1)
         ELSE Return("unreachable", <<Ev("probe", FALSE)>>, meta, attempts + 1)

\* The wait loop after a successful reboot command, one probe per step:
\* Ok(true) breaks out; Ok(false) and Err count and, unless the count has
\* reached max_attempts, sleep before the next probe.
ProbeStep(r) ==
    IF r = "up"
    THEN Step("app_upgrade", <<Ev("probe", TRUE)>>, meta, attempts)
    ELSE IF attempts + 1 < max_attempts
         THEN Step("probe", <<Ev("probe", FALSE), Ev("sleep", TRUE)>>, meta, attempts + 1)
         ELSE Return("unreachable", <<Ev("probe", FALSE)>>, meta, attempts + 1)

\* Mutant of RebootStep: server_rebooted is set before the result is looked at.
RebootStep_MarkBeforeCheck(ok) ==
    IF ok
    THEN IF env.bypass
         THEN Step("app_upgrade", <<Ev("reboot", TRUE)>>,
                   [meta EXCEPT !.server_rebooted = TRUE], attempts)
         ELSE Step("probe", <<Ev("reboot", TRUE), Ev("sleep", TRUE)>>,
                   [meta EXCEPT !.server_rebooted = TRUE], 0)
    ELSE Step("app_upgrade", <<Ev("reboot", FALSE)>>,
              [meta EXCEPT !.server_rebooted = TRUE], attempts)

\* Mutant of RebootStep: the wait is skipped whatever the environment says.
RebootStep_SkipWait(ok) ==
    IF ok
    THEN Step("app_upgrade", <<Ev("reboot", TRUE)>>,
              [meta EXCEPT !.server_rebooted = TRUE], attempts)
    ELSE Step("app_upgrade", <<Ev("reboot", FALSE)>>, meta, attempts)

\* After the reboot command: mark and wait (unless bypassed), or skip.
RebootStep(ok) ==
    IF ok
    THEN IF env.bypass
         THEN Step("app_upgrade", <<Ev("reboot", TRUE)>>,
                   [meta EXCEPT !.server_rebooted = TRUE], attempts)
         ELSE Step("probe", <<Ev("reboot", TRUE), Ev("sleep", TRUE)>>,
                   [meta EXCEPT !.server_rebooted = TRUE], 0)
    ELSE Step("app_upgrade", <<Ev("reboot", FALSE)>>, meta, attempts)

\* Mutant of AppUpgradeStep: a failed upgrade is tried a second time.
AppUpgradeStep_RetryOnce(ok) ==
    IF ok
    THEN Step("after_version", <<Ev("app_upgrade", TRUE)>>, meta, attempts)
    ELSE IF \A i \in DOMAIN trace : trace[i].step # "app_upgrade"
         THEN Step("app_upgrade", <<Ev("app_upgrade", FALSE)>>, meta, attempts)
         ELSE Return("ssh_command_failed", <<Ev("app_upgrade", FALSE)>>, meta, attempts)

\* Mutant of AppUpgradeStep: a failed upgrade runs the OS-update rollback
\* when one is configured.
AppUpgradeStep_RollbackOnFailure(ok) ==
    IF ok
    THEN Step("after_version", <<Ev("app_upgrade", TRUE)>>, meta, attempts)
    ELSE IF os_update_rollback_cmd # None /\ impl = "cmd"
         THEN Step("rollback", <<Ev("app_upgrade", FALSE)>>, meta, attempts)
         ELSE Return("ssh_command_failed", <<Ev("app_upgrade", FALSE)>>, meta, attempts)

\* The application upgrade command; its Err is propagated.
AppUpgradeStep(ok) ==
    IF ok
    THEN Step("after_version", <<Ev("app_upgrade", TRUE)>>, meta, attempts)
    ELSE Return("ssh_command_failed", <<Ev("app_upgrade", FALSE)>>, meta, attempts)

\* ---- commands/update.rs ----

run_update_new_client ==
    /\ impl = "cmd" /\ pc = "new_client"
    /\ \E ok \in BOOLEAN :
        IF ok THEN Step("before_version", << >>, meta, attempts)
        ELSE Return("client", << >>, meta, attempts)

run_update_before_version ==
    /\ impl = "cmd" /\ pc = "before_version"
    /\ \E r \in FetchVersionResults :
        Step("before_os", <<Ev("fetch_version", r.ok)>>,
             [meta EXCEPT !.before_version = r.v], attempts)

run_update_before_os ==
    /\ impl = "cmd" /\ pc = "before_os"
    /\ \E r \in GetOsVersionRuns :
        Step("os_update", r.evs, [meta EXCEPT !.before_os_version = r.v], attempts)

run_update_os_update ==
    /\ impl = "cmd" /\ pc = "os_update"
    /\ \E ok \in BOOLEAN :
        IF ok
        THEN Step("reboot", <<Ev("os_update", TRUE)>>,
                  [meta EXCEPT !.os_updated = TRUE], attempts)
        ELSE IF os_update_rollback_cmd # None
             THEN Step("rollback", <<Ev("os_update", FALSE)>>, meta, attempts)
             ELSE Return("os_update_failed", <<Ev("os_update", FALSE)>>, meta, attempts)

\* Mutant of run_update_rollback: a failed rollback is propagated with `?`.
run_update_rollback_Escalate ==
    /\ impl = "cmd" /\ pc = "rollback"
    /\ \E ok \in BOOLEAN :
        Return(IF ok THEN "os_update_failed" ELSE "ssh_command_failed",
               <<Ev("rollback", ok)>>, meta, attempts)

\* The rollback command after a failed OS update: its failure is printed as
\* a warning; the OS-update error is returned either way.
run_update_rollback ==
    /\ impl = "cmd" /\ pc = "rollback"
    /\ \E ok \in BOOLEAN :
        Return("os_update_failed", <<Ev("rollback", ok)>>, meta, attempts)

run_update_reboot ==
    /\ impl = "cmd" /\ pc = "reboot"
    /\ \E ok \in BOOLEAN : RebootStep(ok)

run_update_probe ==
    /\ impl = "cmd" /\ pc = "probe"
    /\ attempts < max_attempts
    /\ \E r \in ProbeResults : ProbeStep(r)

run_update_app_upgrade ==
    /\ impl = "cmd" /\ pc = "app_upgrade"
    /\ \E ok \in BOOLEAN : AppUpgradeStep(ok)

run_update_after_version ==
    /\ impl = "cmd" /\ pc = "after_version"
    /\ \E r \in FetchVersionResults :
        Step("cleanup", <<Ev("fetch_version", r.ok)>>,
             [meta EXCEPT !.after_version = r.v], attempts)

run_update_cleanup ==
    /\ impl = "cmd" /\ pc = "cleanup"
    /\ \/ Return("ssh_command_failed", <<Ev("cleanup", FALSE)>>, meta, attempts)
       \/ \E out \in CleanupOutputs :
            Return("ok", <<Ev("cleanup", TRUE)>>,
                   [meta EXCEPT !.reclaimed_space = parse_reclaimed_space(out),
                                !.after_os_version = None],
                   attempts)

\* ---- the changelog payload ----

\* std::env::var("DSC_TEST_MARKER").ok(): the variable of env, or the one a
\* payload call was given.
test_marker ==
    IF call.op = "payload" THEN call.marker
    ELSE IF env.marker THEN Some("run-a") ELSE None

\* a.or(b)
Or(a, b) == IF a # None THEN a ELSE b

\* a.unwrap_or_else(|| d)
UnwrapOr(a, d) == IF a # None THEN a[1] ELSE d

\* The lines pushed to `body` for the OS update and the reboot.  `arrow` is
\* the text between the two OS versions.
StatusLines(metadata, arrow) ==
    IF metadata # None
    THEN LET m == metadata[1]
         IN  (IF m.os_updated
              THEN <<<<"- [x] Ubuntu OS updated">>>>
                   \o (IF m.before_os_version # None /\ m.after_os_version # None
                       THEN <<<<"  OS version: ", m.before_os_version[1], arrow,
                                m.after_os_version[1]>>>>
                       ELSE << >>)
              ELSE <<<<"- [ ] Ubuntu OS updated">>,
                     <<"  (OS update was skipped or failed)">>>>)
             \o
             (IF m.server_rebooted
              THEN <<<<"- [x] Server rebooted">>>>
              ELSE <<<<"- [ ] Server rebooted">>,
                     <<"  (Server reboot was skipped or failed)">>>>)
    ELSE <<<<"- [x] Ubuntu OS updated">>, <<"- [x] Server rebooted">>>>

\* The lines for the version and the reclaimed space (the backquotes around
\* "./launcher cleanup" are left out of the literal).
FactLines(metadata) ==
    LET version   == UnwrapOr(IF metadata = None THEN None
                              ELSE Or(metadata[1].after_version,
                                      metadata[1].before_version),
                              "unknown")
        reclaimed == UnwrapOr(IF metadata = None THEN None
                              ELSE metadata[1].reclaimed_space,
                              "unknown")
    IN  <<<<"- [x] Updated Discourse to version ", version>>,
          <<"- [x] ./launcher cleanup Total reclaimed space: ", reclaimed>>>>

\* Mutant of build_changelog_payload: the marker line is pushed with an
\* empty identifier when no marker is set (unwrap_or_default).
build_changelog_payload_AlwaysRunId(metadata) ==
    StatusLines(metadata, " (mis-encoded arrow) ") \o FactLines(metadata)
        \o <<<<"- Run-ID: ", UnwrapOr(test_marker, "")>>>>

\* commands/update.rs: the payload is body joined by "\n"; it is kept as
\* the sequence of its lines, each line as the pieces it is formatted from.
build_changelog_payload(metadata) ==
    StatusLines(metadata, " (mis-encoded arrow) ") \o FactLines(metadata)
        \o (IF test_marker # None
            THEN <<<<"- Run-ID: ", test_marker[1]>>>> ELSE << >>)

\* main.rs: the payload built inside post_changelog_update
main_post_changelog_update_payload(metadata) ==
    StatusLines(metadata, " -> ") \o FactLines(metadata)
        \o (IF test_marker # None
            THEN <<<<"- Run-ID: ", test_marker[1]>>>> ELSE << >>)

\* The Run-ID lines of a payload.
RunIdLines(body) == SelectSeq(body, LAMBDA l : l[1] = "- Run-ID: ")

\* What create_post(topic_id, payload) leaves on the forum: a post on the
\* host's changelog topic; of its raw text the Run-ID lines are kept.  The
\* post id is the position in posts.
Post(h, payload) == [host |-> h, run_id |-> RunIdLines(payload)]

\* Mutant of EchoPostId: the line is printed whether or not the marker is
\* set.
EchoPostId_Always(post_id) ==
    Append(stdout, <<"DSC_TEST_POST_ID=", post_id>>)

\* println!("DSC_TEST_POST_ID={}", post_id) when DSC_TEST_MARKER is set
EchoPostId(post_id) ==
    IF test_marker # None
    THEN Append(stdout, <<"DSC_TEST_POST_ID=", post_id>>) ELSE stdout

\* ---- main.rs ----

main_run_update_new_client ==
    /\ impl = "main" /\ pc = "new_client"
    /\ \E ok \in BOOLEAN :
        IF ok THEN Step("before_version", << >>, meta, attempts)
        ELSE Return("client", << >>, meta, attempts)

main_run_update_before_version ==
    /\ impl = "main" /\ pc = "before_version"
    /\ \E r \in FetchVersionResults :
        Step("before_os", <<Ev("fetch_version", r.ok)>>,
             [meta EXCEPT !.before_version = r.v], attempts)

main_run_update_before_os ==
    /\ impl = "main" /\ pc = "before_os"
    /\ \E r \in GetOsVersionRuns :
        Step("os_update", r.evs, [meta EXCEPT !.before_os_version = r.v], attempts)

\* Mutant of main_run_update_os_update: the reboot is tried after a failed
\* OS update too.
main_run_update_os_update_RebootAnyway ==
    /\ impl = "main" /\ pc = "os_update"
    /\ \E ok \in BOOLEAN :
        IF ok
        THEN Step("reboot", <<Ev("os_update", TRUE)>>,
                  [meta EXCEPT !.os_updated = TRUE], attempts)
        ELSE Step("reboot", <<Ev("os_update", FALSE)>>, meta, attempts)

\* match run_ssh_command(os_update_cmd) { Ok(_) => ..., Err(_) => {} }
main_run_update_os_update ==
    /\ impl = "main" /\ pc = "os_update"
    /\ \E ok \in BOOLEAN :
        IF ok
        THEN Step("reboot", <<Ev("os_update", TRUE)>>,
                  [meta EXCEPT !.os_updated = TRUE], attempts)
        ELSE Step("app_upgrade", <<Ev("os_update", FALSE)>>, meta, attempts)

main_run_update_reboot ==
    /\ impl = "main" /\ pc = "reboot"
    /\ \E ok \in BOOLEAN : RebootStep(ok)

main_run_update_probe ==
    /\ impl = "main" /\ pc = "probe"
    /\ attempts < max_attempts
    /\ \E r \in ProbeResults : ProbeStep(r)

main_run_update_app_upgrade ==
    /\ impl = "main" /\ pc = "app_upgrade"
    /\ \E ok \in BOOLEAN : AppUpgradeStep(ok)

main_run_update_after_version ==
    /\ impl = "main" /\ pc = "after_version"
    /\ \E r \in FetchVersionResults :
        Step("cleanup", <<Ev("fetch_version", r.ok)>>,
             [meta EXCEPT !.after_version = r.v], attempts)

main_run_update_cleanup ==
    /\ impl = "main" /\ pc = "cleanup"
    /\ \/ Return("ssh_command_failed", <<Ev("cleanup", FALSE)>>, meta, attempts)
       \/ \E out \in CleanupOutputs :
            Step("after_os", <<Ev("cleanup", TRUE)>>,
                 [meta EXCEPT !.reclaimed_space = parse_reclaimed_space(out)],
                 attempts)

main_run_update_after_os ==
    /\ impl = "main" /\ pc = "after_os"
    /\ \E r \in GetOsVersionRuns :
        Return("ok", r.evs, [meta EXCEPT !.after_os_version = r.v], attempts)

-----------------------------------------------------------------------------
(* The Fleet Runner: update_one, and update_all in sequential mode *)

Line(ev, h) == [ev |-> ev, host |-> h]

\* The locals of the thread-spawning code of update_all: max (the argument),
\* next (the host the for loop is at), handles (the Vec of JoinHandles, as
\* hosts), joining (the host whose popped handle is being joined, 0: none),
\* task (per host: "none" before its thread is spawned, "running" in
\* run_update, "posting" in the changelog step, then what the thread
\* returned, "ok" or "err"), reported (the hosts whose error update_all
\* returned).  NoPar: that code is not running.
NoPar ==
    [max |-> None, next |-> 0, handles |-> << >>, joining |-> 0,
     task |-> [h \in Hosts |-> "none"], reported |-> {}]

\* The file at "<date>-dsc-update-all.log": whether that path is a symbolic
\* link, the content of the file the path leads to (no line when there is
\* no such file yet), and the content that file had when this run opened it
\* (None until then).
NoFile == [symlink |-> FALSE, content |-> << >>, at_open |-> None]

\* The lines of lg that log does not hold yet: what a step writes.
Written(lg) == SubSeq(lg, Len(log) + 1, Len(lg))

\* writeln!(log_file, ...) on a file opened with append(true): the lines go
\* to the end of what the file holds at that moment.  A line is taken as
\* written in one piece.
Writeln(f, lines) == [f EXCEPT !.content = @ \o lines]

\* The loop over config.discourse reaches host h: with
\* logging it writes "starting" and calls run_update; past the last host it
\* writes "update all completed" and update_all returns Ok.
EnterHost(h, lg, logging) ==
    IF h \in Hosts
    THEN /\ cur' = h
         /\ log' = IF logging THEN Append(lg, Line("starting", h)) ELSE lg
         /\ file' = Writeln(file, Written(log'))
         /\ pc' = "new_client"
         /\ attempts' = 0
         /\ meta' = InitMeta
         /\ trace' = << >>
         /\ ret' = "pending"
         /\ outcome' = None
         /\ UNCHANGED result
    ELSE /\ log' = IF logging THEN Append(lg, Line("completed", 0)) ELSE lg
         /\ file' = Writeln(file, Written(log'))
         /\ pc' = "done"
         /\ result' = "ok"
         /\ UNCHANGED <<cur, attempts, meta, trace, ret, outcome>>

\* update_one or update_all returns e (an error, or "ok"), having written
\* the lines lg.
Fail(e, lg) ==
    /\ log' = lg
    /\ file' = Writeln(file, Written(lg))
    /\ pc' = "done"
    /\ result' = e
    /\ UNCHANGED <<cur, attempts, meta, trace, ret, outcome>>

\* The changelog step is over without error: update_all goes to the next
\* host, update_one returns Ok.
AfterPost(logging) ==
    IF name = "all" THEN EnterHost(cur + 1, log, logging) ELSE Fail("ok", log)

\* One thing the changelog publishing did for host h: it built the payload,
\* it asked for confirmation (ok: the line typed was affirmative), it called
\* create_post (ok: a post was created).
PubEv(step, h, ok) == [step |-> step, host |-> h, ok |-> ok]

\* What --max may be: absent, or a number.
MaxArgs == {None} \cup {Some(k) : k \in 0..MaxMax}

\* update_all reaching the thread-spawning code: max_threads is computed,
\* handles is empty and the for loop is at the first host.
SpawnThreads(max) ==
    /\ par' = [NoPar EXCEPT !.max = max, !.next = 1]
    /\ pc' = "par_loop"
    /\ UNCHANGED <<cur, attempts, meta, trace, ret, outcome, result, log, file>>

\* What the remote command may have written to stderr.
Stderrs == {"", "E: dpkg was interrupted"}

\* The message of the Err that run_update returns with code e for host h:
\* the format string, the target put into it (if any) and the stderr put
\* into it (if any).
ErrorTexts(e, h) ==
    CASE e = "client" ->
            {[fmt |-> f, target |-> None, detail |-> ""] :
                f \in {"baseurl is required", "invalid api key",
                       "invalid api username", "building http client"}}
      [] e = "os_update_failed" ->
            {[fmt |-> "OS update failed for {}: {}", target |-> Some(h), detail |-> d] :
                d \in Stderrs}
      [] e = "unreachable" ->
            {[fmt |-> "Server did not come back online after reboot",
              target |-> None, detail |-> ""]}
      [] e = "ssh_command_failed" ->
            {[fmt |-> "ssh command failed for {}: {}", target |-> Some(h), detail |-> d] :
                d \in Stderrs}
      [] OTHER -> {}

\* ---- main.rs ----

\* main() dispatching `dsc update <name>` to update_one: --concurrent and
\* --max are refused; find_discourse gives the host (0: no host of that
\* name).
main_update_one ==
    /\ impl = "main" /\ name = "one" /\ pc = "start"
    /\ UNCHANGED <<impl, env, name, post_changelog, concurrent, posts, stdout, pub, par, call>>
    /\ \E max \in MaxArgs :
        IF concurrent \/ max # None
        THEN Fail("concurrent_only_all", log)
        ELSE \E h \in {0} \cup Hosts :
                 IF h = 0 THEN Fail("unknown_discourse", log)
                 ELSE EnterHost(h, log, FALSE)

\* run_update returned to update_one
main_update_one_returned ==
    /\ impl = "main" /\ name = "one" /\ pc = "returned"
    /\ UNCHANGED <<impl, env, name, post_changelog, concurrent, posts, stdout, pub, par, call>>
    /\ IF ret = "ok"
       THEN IF post_changelog
            THEN /\ pc' = "post"
                 /\ UNCHANGED <<cur, attempts, meta, trace, ret, outcome, result,
                                log, file>>
            ELSE Fail("ok", log)
       ELSE Fail(ret, log)

\* Mutant of main_update_all: the log file is opened with File::create,
\* which empties it.
main_update_all_Truncate ==
    /\ impl = "main" /\ name = "all" /\ pc = "start"
    /\ UNCHANGED <<impl, env, name, post_changelog, concurrent, posts, stdout, pub, call>>
    /\ \E max \in MaxArgs :
        IF max # None /\ ~concurrent
        THEN Fail("max_requires_concurrent", log) /\ UNCHANGED par
        ELSE IF concurrent
        THEN Fail("concurrent_disabled", log) /\ UNCHANGED par
        ELSE IF ~concurrent
        THEN /\ UNCHANGED par
             /\ \E opened \in BOOLEAN :
                 IF opened
                 THEN /\ file' = [file EXCEPT !.at_open = Some(file.content),
                                            !.content = << >>]
                      /\ pc' = "log_open"
                      /\ UNCHANGED <<cur, attempts, meta, trace, ret, outcome,
                                     result, log>>
                 ELSE Fail("open_log", log)
        ELSE SpawnThreads(max)

\* main() dispatching `dsc update all` (--max without --concurrent is
\* refused) to update_all: --concurrent is refused; else the log file is
\* opened with create(true).append(true), which follows a symbolic link and
\* may fail.  The thread-spawning code comes after the two returns.
main_update_all ==
    /\ impl = "main" /\ name = "all" /\ pc = "start"
    /\ UNCHANGED <<impl, env, name, post_changelog, concurrent, posts, stdout, pub, call>>
    /\ \E max \in MaxArgs :
        IF max # None /\ ~concurrent
        THEN Fail("max_requires_concurrent", log) /\ UNCHANGED par
        ELSE IF concurrent
        THEN Fail("concurrent_disabled", log) /\ UNCHANGED par
        ELSE IF ~concurrent
        THEN /\ UNCHANGED par
             /\ \E opened \in BOOLEAN :
                 IF opened
                 THEN /\ file' = [file EXCEPT !.at_open = Some(file.content)]
                      /\ pc' = "log_open"
                      /\ UNCHANGED <<cur, attempts, meta, trace, ret, outcome,
                                     result, log>>
                 ELSE Fail("open_log", log)
        ELSE SpawnThreads(max)

\* the first line, and the loop starts
main_update_all_started ==
    /\ impl = "main" /\ name = "all" /\ pc = "log_open"
    /\ UNCHANGED <<impl, env, name, post_changelog, concurrent, posts, stdout, pub, par, call>>
    /\ EnterHost(1, Append(log, Line("started", 0)), TRUE)

\* run_update returned to the loop of update_all
main_update_all_returned ==
    /\ impl = "main" /\ name = "all" /\ pc = "returned"
    /\ UNCHANGED <<impl, env, name, post_changelog, concurrent, posts, stdout, pub, par, call>>
    /\ IF ret = "ok"
       THEN IF post_changelog
            THEN /\ log' = Append(log, Line("success", cur))
                 /\ file' = Writeln(file, Written(log'))
                 /\ pc' = "post"
                 /\ UNCHANGED <<cur, attempts, meta, trace, ret, outcome, result>>
            ELSE EnterHost(cur + 1, Append(log, Line("success", cur)), TRUE)
       ELSE Fail(ret, Append(log, Line("failed", cur)))

\* post_changelog_update: without a changelog_topic_id it is an Err; else
\* the payload is built and create_post is called, nobody is asked.  An Err
\* ends update_one, and update_all after a "failed ... (changelog)" line.
main_post_changelog_update ==
    /\ impl = "main" /\ pc = "post"
    /\ UNCHANGED <<impl, env, name, post_changelog, concurrent, par, call>>
    /\ \E r \in {"no_topic", "created", "create_failed"} :
        /\ pub' = IF r = "no_topic" THEN pub
                  ELSE pub \o <<PubEv("payload", cur, TRUE),
                                PubEv("create_post", cur, r = "created")>>
        /\ IF r = "created"
           THEN /\ posts' = Append(posts,
                                   Post(cur, main_post_changelog_update_payload(outcome)))
                /\ stdout' = EchoPostId(Len(posts'))
                /\ AfterPost(TRUE)
           ELSE /\ UNCHANGED <<posts, stdout>>
                /\ Fail(r, IF name = "all"
                           THEN Append(log, Line("failed_changelog", cur))
                           ELSE log)

\* ---- commands/update.rs ----

\* find_discourse gives the host (0: no host of that name).
update_one ==
    /\ impl = "cmd" /\ name = "one" /\ pc = "start"
    /\ UNCHANGED <<impl, env, name, post_changelog, concurrent, posts, stdout, pub, par, call>>
    /\ \E h \in {0} \cup Hosts :
        IF h = 0 THEN Fail("unknown_discourse", log)
        ELSE EnterHost(h, log, FALSE)

update_one_returned ==
    /\ impl = "cmd" /\ name = "one" /\ pc = "returned"
    /\ UNCHANGED <<impl, env, name, post_changelog, concurrent, posts, stdout, pub, par, call>>
    /\ IF ret = "ok"
       THEN IF post_changelog
            THEN /\ pc' = "post"
                 /\ UNCHANGED <<cur, attempts, meta, trace, ret, outcome, result,
                                log, file>>
            ELSE Fail("ok", log)
       ELSE Fail(ret, log)

\* Mutant of update_all: --concurrent is not refused.
update_all_ConcurrentAllowed ==
    /\ impl = "cmd" /\ name = "all" /\ pc = "start"
    /\ UNCHANGED <<impl, env, name, post_changelog, concurrent, posts, stdout, pub, call>>
    /\ \E max \in MaxArgs :
        IF ~concurrent
        THEN EnterHost(1, log, FALSE) /\ UNCHANGED par
        ELSE SpawnThreads(max)

\* update_all(config, concurrent, max, post_changelog): concurrent is
\* refused; the sequential loop returns; the thread-spawning code follows.
update_all ==
    /\ impl = "cmd" /\ name = "all" /\ pc = "start"
    /\ UNCHANGED <<impl, env, name, post_changelog, concurrent, posts, stdout, pub, call>>
    /\ \E max \in MaxArgs :
        IF concurrent
        THEN Fail("concurrent_disabled", log) /\ UNCHANGED par
        ELSE IF ~concurrent
        THEN EnterHost(1, log, FALSE) /\ UNCHANGED par
        ELSE SpawnThreads(max)

\* Mutant of update_all_returned: the changelog step follows run_update
\* whatever it returned.
update_all_returned_PostAlways ==
    /\ impl = "cmd" /\ name = "all" /\ pc = "returned"
    /\ UNCHANGED <<impl, env, name, post_changelog, concurrent, posts, stdout, pub, par, call>>
    /\ IF post_changelog
       THEN /\ pc' = "post"
            /\ UNCHANGED <<cur, attempts, meta, trace, ret, outcome, result,
                           log, file>>
       ELSE IF ret = "ok" THEN EnterHost(cur + 1, log, FALSE) ELSE Fail(ret, log)

update_all_returned ==
    /\ impl = "cmd" /\ name = "all" /\ pc = "returned"
    /\ UNCHANGED <<impl, env, name, post_changelog, concurrent, posts, stdout, pub, par, call>>
    /\ IF ret = "ok"
       THEN IF post_changelog
            THEN /\ pc' = "post"
                 /\ UNCHANGED <<cur, attempts, meta, trace, ret, outcome, result,
                                log, file>>
            ELSE EnterHost(cur + 1, log, FALSE)
       ELSE Fail(ret, log)

\* What the user may type at the prompt (trimmed); "io_error": stdin
\* cannot be read.
Answers == {"y", "YES", "n", "", "io_error"}

\* matches!(input.trim(), "y" | "Y" | "yes" | "YES")
Affirmative(input) == input \in {"y", "Y", "yes", "YES"}

\* Mutant of confirm_changelog_post: the default of the prompt [y/N] is
\* taken as yes.
confirm_changelog_post_DefaultYes(input) ==
    IF env.marker THEN "auto"
    ELSE IF input = "io_error" THEN "io_error"
    ELSE IF Affirmative(input) \/ input = "" THEN "yes" ELSE "no"

\* confirm_changelog_post: with DSC_TEST_MARKER set nobody is asked and the
\* answer is yes ("auto"); else a line is read from stdin.
confirm_changelog_post(input) ==
    IF env.marker THEN "auto"
    ELSE IF input = "io_error" THEN "io_error"
    ELSE IF Affirmative(input) THEN "yes" ELSE "no"

\* handle_changelog_post: the payload is built and printed; the post is
\* skipped without error when the host has no changelog_topic_id, no api
\* credentials, or the confirmation is not given; else post_changelog_update
\* calls create_post, and its Err is returned.  pub records what the two
\* checks found.
handle_changelog_post ==
    /\ impl = "cmd" /\ pc = "post"
    /\ UNCHANGED <<impl, env, name, post_changelog, concurrent, par, call>>
    /\ \E topic, creds, created \in BOOLEAN, input \in Answers :
        LET built  == <<PubEv("payload", cur, TRUE), PubEv("topic_id", cur, topic)>>
            ready  == built \o <<PubEv("credentials", cur, creds)>>
            answer == confirm_changelog_post(input)
            asked  == IF answer \in {"yes", "no"}
                      THEN <<PubEv("confirm", cur, Affirmative(input))>> ELSE << >>
        IN  IF ~topic
            THEN /\ pub' = pub \o built
                 /\ UNCHANGED <<posts, stdout>>
                 /\ AfterPost(FALSE)
            ELSE IF ~creds
            THEN /\ pub' = pub \o ready
                 /\ UNCHANGED <<posts, stdout>>
                 /\ AfterPost(FALSE)
            ELSE IF answer = "io_error"
            THEN /\ pub' = pub \o ready
                 /\ UNCHANGED <<posts, stdout>>
                 /\ Fail("confirm_io", log)
            ELSE IF answer = "no"
            THEN /\ pub' = pub \o ready \o asked
                 /\ UNCHANGED <<posts, stdout>>
                 /\ AfterPost(FALSE)
            ELSE /\ pub' = pub \o ready \o asked
                               \o <<PubEv("create_post", cur, created)>>
                 /\ IF created
                    THEN /\ posts' = Append(posts,
                                            Post(cur, build_changelog_payload(outcome)))
                         /\ stdout' = EchoPostId(Len(posts'))
                         /\ AfterPost(FALSE)
                    ELSE UNCHANGED <<posts, stdout>> /\ Fail("create_failed", log)

-----------------------------------------------------------------------------
(* The specification of the fleet run *)

Init ==
    /\ impl \in Impls
    /\ env \in EnvSet
    /\ name \in Names
    /\ post_changelog \in BOOLEAN
    /\ concurrent \in BOOLEAN
    /\ pc = "start"
    /\ cur = 0
    /\ attempts = 0
    /\ meta = InitMeta
    /\ trace = << >>
    /\ ret = "pending"
    /\ outcome = None
    /\ log = << >>
    /\ file = NoFile
    /\ result = "running"
    /\ posts = << >>
    /\ stdout = << >>
    /\ pub = << >>
    /\ par = NoPar
    /\ call = NoCall

Next ==
    \/ update_one
    \/ update_one_returned
    \/ update_all
    \/ update_all_returned
    \/ handle_changelog_post
    \/ run_update_new_client
    \/ run_update_before_version
    \/ run_update_before_os
    \/ run_update_os_update
    \/ run_update_rollback
    \/ run_update_reboot
    \/ run_update_probe
    \/ run_update_app_upgrade
    \/ run_update_after_version
    \/ run_update_cleanup
    \/ main_update_one
    \/ main_update_one_returned
    \/ main_update_all
    \/ main_update_all_started
    \/ main_update_all_returned
    \/ main_post_changelog_update
    \/ main_run_update_new_client
    \/ main_run_update_before_version
    \/ main_run_update_before_os
    \/ main_run_update_os_update
    \/ main_run_update_reboot
    \/ main_run_update_probe
    \/ main_run_update_app_upgrade
    \/ main_run_update_after_version
    \/ main_run_update_cleanup
    \/ main_run_update_after_os

Spec == Init /\ [][Next]_vars

-----------------------------------------------------------------------------
(* The audit log of main.rs's update_all on a path that is already there.  *)
(* The environment is the one of the end-to-end tests, in which the wait    *)
(* after the reboot (which writes nothing to the log) is bypassed.          *)

MaxOtherLines == 1

\* What may be at the log's path when update_all starts: a symbolic link or
\* not, leading to nothing yet or to the lines of an earlier run of the day.
LogFiles ==
    [symlink : BOOLEAN,
     content : {<< >>, <<Line("earlier", 0)>>},
     at_open : {None}]

\* Another `dsc update all` of the same day writes a line of its own to the
\* same file, which it also opened with append(true).
other_run_appends ==
    /\ Cardinality({i \in DOMAIN file.content : file.content[i].ev = "other"})
            < MaxOtherLines
    /\ file' = Writeln(file, <<Line("other", 0)>>)
    /\ UNCHANGED <<impl, env, name, post_changelog, concurrent, pc, cur, attempts,
                   meta, trace, ret, outcome, log, result, posts, stdout, pub, par, call>>

InitLog ==
    /\ impl = "main"
    /\ env = [rollback |-> FALSE, bypass |-> TRUE, marker |-> FALSE]
    /\ name = "all"
    /\ post_changelog \in BOOLEAN
    /\ concurrent \in BOOLEAN
    /\ pc = "start"
    /\ cur = 0
    /\ attempts = 0
    /\ meta = InitMeta
    /\ trace = << >>
    /\ ret = "pending"
    /\ outcome = None
    /\ log = << >>
    /\ file \in LogFiles
    /\ result = "running"
    /\ posts = << >>
    /\ stdout = << >>
    /\ pub = << >>
    /\ par = NoPar
    /\ call = NoCall

NextLog ==
    \/ main_update_all
    \/ main_update_all_started
    \/ main_update_all_returned
    \/ main_post_changelog_update
    \/ main_run_update_new_client
    \/ main_run_update_before_version
    \/ main_run_update_before_os
    \/ main_run_update_os_update
    \/ main_run_update_reboot
    \/ main_run_update_app_upgrade
    \/ main_run_update_after_version
    \/ main_run_update_cleanup
    \/ main_run_update_after_os
    \/ other_run_appends

SpecLog == InitLog /\ [][NextLog]_vars

-----------------------------------------------------------------------------
(* The thread-spawning code of update_all (commands/update.rs 44-66,        *)
(* main.rs 565-587): what it does once control is in it.  In both files it  *)
(* stands behind `if concurrent { return Err }` and                         *)
(* `if !concurrent { ...; return Ok }` (see update_all, main_update_all).   *)
(* The thread of a host runs run_update and then the changelog step; each  *)
(* of the two is taken as one step of the thread.                          *)

\* max.unwrap_or_else(|| config.discourse.len().max(1))
max_threads ==
    IF par.max # None THEN par.max[1]
    ELSE IF NumHosts > 1 THEN NumHosts ELSE 1

\* The hosts whose thread was spawned and has not returned.
Running == {h \in Hosts : par.task[h] \in {"running", "posting"}}

\* handles.push(thread::spawn(...)) for the host the loop is at
Spawn(p) ==
    [p EXCEPT !.handles = Append(@, p.next),
              !.task[p.next] = "running",
              !.next = @ + 1]

\* Mutant of par_for_each_host: the pool counts as full one handle late
\* (> for >=).
par_for_each_host_FullLate ==
    /\ pc = "par_loop"
    /\ UNCHANGED <<impl, env, name, post_changelog, concurrent, cur, attempts,
                   meta, trace, ret, outcome, log, file, posts, stdout, pub, call>>
    /\ IF par.next \in Hosts
       THEN IF Len(par.handles) > max_threads /\ par.handles # << >>
            THEN /\ par' = [par EXCEPT
                               !.joining = par.handles[Len(par.handles)],
                               !.handles = SubSeq(@, 1, Len(@) - 1)]
                 /\ pc' = "par_join_popped"
                 /\ UNCHANGED result
            ELSE /\ par' = Spawn(par)
                 /\ UNCHANGED <<pc, result>>
       ELSE /\ pc' = "par_join_rest"
            /\ UNCHANGED <<par, result>>

\* for discourse in config.discourse.clone(): with handles.len() >=
\* max_threads the last handle is popped and joined (if there is one),
\* else the thread of the host is spawned at once; after the last host the
\* remaining handles are joined.
par_for_each_host ==
    /\ pc = "par_loop"
    /\ UNCHANGED <<impl, env, name, post_changelog, concurrent, cur, attempts,
                   meta, trace, ret, outcome, log, file, posts, stdout, pub, call>>
    /\ IF par.next \in Hosts
       THEN IF Len(par.handles) >= max_threads /\ par.handles # << >>
            THEN /\ par' = [par EXCEPT
                               !.joining = par.handles[Len(par.handles)],
                               !.handles = SubSeq(@, 1, Len(@) - 1)]
                 /\ pc' = "par_join_popped"
                 /\ UNCHANGED result
            ELSE /\ par' = Spawn(par)
                 /\ UNCHANGED <<pc, result>>
       ELSE /\ pc' = "par_join_rest"
            /\ UNCHANGED <<par, result>>

\* handle.join().expect("thread panicked")? on the popped handle: it waits
\* for that thread; its Err is returned by update_all, else the thread of
\* the host the loop is at is spawned.
par_join_popped ==
    /\ pc = "par_join_popped"
    /\ par.task[par.joining] \in {"ok", "err"}
    /\ UNCHANGED <<impl, env, name, post_changelog, concurrent, cur, attempts,
                   meta, trace, ret, outcome, log, file, posts, stdout, pub, call>>
    /\ IF par.task[par.joining] = "err"
       THEN /\ pc' = "done"
            /\ result' = "task_failed"
            /\ par' = [par EXCEPT !.reported = {par.joining}, !.joining = 0]
       ELSE /\ pc' = "par_loop"
            /\ par' = Spawn([par EXCEPT !.joining = 0])
            /\ UNCHANGED result

\* for handle in handles { handle.join().expect("thread panicked")?; }
par_join_rest ==
    /\ pc = "par_join_rest"
    /\ UNCHANGED <<impl, env, name, post_changelog, concurrent, cur, attempts,
                   meta, trace, ret, outcome, log, file, posts, stdout, pub, call>>
    /\ IF par.handles = << >>
       THEN /\ pc' = "done"
            /\ result' = "ok"
            /\ UNCHANGED par
       ELSE /\ par.task[Head(par.handles)] \in {"ok", "err"}
            /\ IF par.task[Head(par.handles)] = "err"
               THEN /\ pc' = "done"
                    /\ result' = "task_failed"
                    /\ par' = [par EXCEPT !.reported = {Head(par.handles)},
                                          !.handles = Tail(@)]
               ELSE /\ par' = [par EXCEPT !.handles = Tail(@)]
                    /\ UNCHANGED <<pc, result>>

\* In the thread of a host run_update returns: its Err ends the thread;
\* after Ok the changelog step follows when do_post is set.
task_run_update_returns ==
    /\ pc \in {"par_loop", "par_join_popped", "par_join_rest"}
    /\ \E h \in Hosts, ok \in BOOLEAN :
         /\ par.task[h] = "running"
         /\ par' = [par EXCEPT !.task[h] =
                        IF ~ok THEN "err"
                        ELSE IF post_changelog THEN "posting" ELSE "ok"]
    /\ UNCHANGED <<impl, env, name, post_changelog, concurrent, pc, cur, attempts,
                   meta, trace, ret, outcome, log, file, result, posts, stdout, pub, call>>

\* In the thread of a host the changelog step (handle_changelog_post,
\* post_changelog_update in main.rs) returns, and with it the thread.
task_changelog_returns ==
    /\ pc \in {"par_loop", "par_join_popped", "par_join_rest"}
    /\ \E h \in Hosts, ok \in BOOLEAN :
         /\ par.task[h] = "posting"
         /\ par' = [par EXCEPT !.task[h] = IF ok THEN "ok" ELSE "err"]
    /\ UNCHANGED <<impl, env, name, post_changelog, concurrent, pc, cur, attempts,
                   meta, trace, ret, outcome, log, file, result, posts, stdout, pub, call>>

InitParallel ==
    /\ impl \in Impls
    /\ env = [rollback |-> FALSE, bypass |-> FALSE, marker |-> FALSE]
    /\ name = "all"
    /\ post_changelog \in BOOLEAN
    /\ concurrent = TRUE
    /\ pc = "par_loop"
    /\ cur = 0
    /\ attempts = 0
    /\ meta = InitMeta
    /\ trace = << >>
    /\ ret = "pending"
    /\ outcome = None
    /\ log = << >>
    /\ file = NoFile
    /\ result = "running"
    /\ posts = << >>
    /\ stdout = << >>
    /\ pub = << >>
    /\ \E m \in MaxArgs :
         par = [NoPar EXCEPT !.max = m, !.next = 1]
    /\ call = NoCall

NextParallel ==
    \/ par_for_each_host
    \/ par_join_popped
    \/ par_join_rest
    \/ task_run_update_returns
    \/ task_changelog_returns

SpecParallel == InitParallel /\ [][NextParallel]_vars

-----------------------------------------------------------------------------
(* Pure functions, applied to bounded inputs *)

MaxOutputLen == 5

MaxTargetLen == 3

MaxCalls == 2

SeqsUpTo(A, n) == UNION {[1..k -> A] : k \in 0..n}

\* The fleet runner is not running.
Idle ==
    /\ env = [rollback |-> FALSE, bypass |-> FALSE, marker |-> FALSE]
    /\ name = "all"
    /\ post_changelog = FALSE
    /\ concurrent = FALSE
    /\ pc = "idle"
    /\ cur = 0
    /\ attempts = 0
    /\ meta = InitMeta
    /\ trace = << >>
    /\ ret = "pending"
    /\ outcome = None
    /\ log = << >>
    /\ file = NoFile
    /\ result = "running"
    /\ posts = << >>
    /\ stdout = << >>
    /\ pub = << >>
    /\ par = NoPar

\* ---- parse_reclaimed_space ----

OutputAlphabet == {"T", ":", " ", "9", "\n"}

InitParse ==
    /\ impl \in Impls
    /\ Idle
    /\ \E s \in SeqsUpTo(OutputAlphabet, MaxOutputLen) :
        call = [op |-> "parse", input |-> s, done |-> FALSE, output |-> None]

\* let reclaimed_space = parse_reclaimed_space(&cleanup);
parse_call ==
    /\ call.op = "parse" /\ ~call.done
    /\ call' = [call EXCEPT !.done = TRUE,
                            !.output = parse_reclaimed_space(call.input)]
    /\ UNCHANGED fleetVars

SpecParse == InitParse /\ [][parse_call]_vars

\* ---- remote command execution ----

TargetAlphabet == {"-", " ", "\t", "h"}

\* validate_ssh_target: "ok", or why the target is refused
validate_ssh_target(target) ==
    LET trimmed == Trim(target)
    IN  IF trimmed = << >> THEN "empty"
        ELSE IF StartsWith(trimmed, <<"-">>) THEN "dash"
        ELSE IF \E i \in DOMAIN trimmed : IsWhitespace(trimmed[i]) THEN "whitespace"
        ELSE "ok"

\* build_ssh_command: an Err of validate_ssh_target is propagated, else the
\* Command for `ssh ... -- target` is built (not yet started).
build_ssh_command(target) ==
    IF validate_ssh_target(target) = "ok" THEN "ok" ELSE "invalid_target"

InitTarget ==
    /\ impl \in Impls
    /\ Idle
    /\ \E t \in SeqsUpTo(TargetAlphabet, MaxTargetLen) :
        call = [op |-> "ssh", fn |-> "none", target |-> t,
                started |-> FALSE, res |-> "pending"]

\* A call of fn on call.target: refused before a process exists when
\* `built` is an error, else the ssh process starts and exits with one of
\* `exits`, or cannot be started at all ("io_error").
Exec(fn, built, exits) ==
    /\ call.op = "ssh" /\ call.res = "pending"
    /\ UNCHANGED fleetVars
    /\ IF built # "ok"
       THEN call' = [call EXCEPT !.fn = fn, !.res = built]
       ELSE \/ \E r \in exits :
                call' = [call EXCEPT !.fn = fn, !.started = TRUE, !.res = r]
            \/ call' = [call EXCEPT !.fn = fn, !.res = "io_error"]

run_ssh_command ==
    /\ impl = "cmd"
    /\ Exec("run_ssh_command", build_ssh_command(call.target),
            {"ok", "command_failed"})

run_ssh_command_with_tail ==
    /\ impl = "cmd"
    /\ Exec("run_ssh_command_with_tail", build_ssh_command(call.target),
            {"ok", "command_failed"})

ssh_probe ==
    /\ impl = "cmd"
    /\ Exec("ssh_probe", build_ssh_command(call.target), {"up", "down"})

\* main.rs hands the target to ssh as it is.
main_run_ssh_command ==
    /\ impl = "main"
    /\ Exec("run_ssh_command", "ok", {"ok", "command_failed"})

\* the probe written out in main.rs's run_update
main_probe ==
    /\ impl = "main"
    /\ Exec("probe", "ok", {"up", "down"})

NextTarget ==
    \/ run_ssh_command
    \/ run_ssh_command_with_tail
    \/ ssh_probe
    \/ main_run_ssh_command
    \/ main_probe

SpecTarget == InitTarget /\ [][NextTarget]_vars

\* ---- the changelog payload ----

\* DSC_TEST_MARKER: unset, or set to a run identifier
Markers == {None, Some("run-a"), Some("run-b")}

Options(S) == {None} \cup {Some(x) : x \in S}

Metadatas ==
    [before_version    : Options({"3.1"}),
     after_version     : Options({"3.2"}),
     reclaimed_space   : Options({<<"9">>}),
     before_os_version : Options(OsVersions),
     after_os_version  : Options(OsVersions),
     os_updated        : BOOLEAN,
     server_rebooted   : BOOLEAN]

InitPayload ==
    /\ impl \in Impls
    /\ Idle
    /\ \E md \in Options(Metadatas), mk \in Markers :
        call = [op |-> "payload", metadata |-> md, marker |-> mk,
                payloads |-> << >>]

build_payload_call ==
    /\ impl = "cmd"
    /\ call.op = "payload" /\ Len(call.payloads) < MaxCalls
    /\ call' = [call EXCEPT !.payloads =
                    Append(@, build_changelog_payload(call.metadata))]
    /\ UNCHANGED fleetVars

main_build_payload_call ==
    /\ impl = "main"
    /\ call.op = "payload" /\ Len(call.payloads) < MaxCalls
    /\ call' = [call EXCEPT !.payloads =
                    Append(@, main_post_changelog_update_payload(call.metadata))]
    /\ UNCHANGED fleetVars

NextPayload == build_payload_call \/ main_build_payload_call

SpecPayload == InitPayload /\ [][NextPayload]_vars

-----------------------------------------------------------------------------
(* run_ssh_command_with_tail: the two reader threads, the channel and the  *)
(* receiving loop.  The remote command's stdout and stderr are given as    *)
(* the lines it emits; call holds the locals.                              *)

MaxLines == 2

MaxTail == 2

\* A line that is not valid UTF-8: reader.lines() yields Err for it.
Invalid == "<not utf-8>"

EmittedLines == {"a", "b", Invalid}

LineEvent(is_stderr, line) == [is_stderr |-> is_stderr, line |-> line]

InitTail ==
    /\ impl = "cmd"
    /\ Idle
    /\ \E out, err \in SeqsUpTo(EmittedLines, MaxLines), n \in 0..MaxTail :
        call = [op |-> "tail", tail_lines |-> n,
                out |-> out, err |-> err,
                out_read |-> 0, err_read |-> 0,
                tx_out |-> TRUE, tx_err |-> TRUE,
                rx |-> << >>,
                stdout_buf |-> << >>, stderr_buf |-> << >>,
                tail |-> << >>, arrived |-> << >>,
                res |-> "pending"]

\* The thread reading the child's stdout: for line in reader.lines() sends
\* each Ok(line); Err(_) => break; at the end of the loop tx_out is dropped.
stdout_reader ==
    /\ call.op = "tail" /\ call.tx_out
    /\ UNCHANGED fleetVars
    /\ IF call.out_read = Len(call.out) \/ call.out[call.out_read + 1] = Invalid
       THEN call' = [call EXCEPT !.tx_out = FALSE]
       ELSE call' = [call EXCEPT
                        !.out_read = @ + 1,
                        !.rx = Append(@, LineEvent(FALSE, call.out[call.out_read + 1]))]

\* The thread reading the child's stderr.
stderr_reader ==
    /\ call.op = "tail" /\ call.tx_err
    /\ UNCHANGED fleetVars
    /\ IF call.err_read = Len(call.err) \/ call.err[call.err_read + 1] = Invalid
       THEN call' = [call EXCEPT !.tx_err = FALSE]
       ELSE call' = [call EXCEPT
                        !.err_read = @ + 1,
                        !.rx = Append(@, LineEvent(TRUE, call.err[call.err_read + 1]))]

\* if tail_lines > 0 { if tail.len() == tail_lines { tail.pop_front(); }
\* tail.push_back(event.line); }
PushTail(tail, line, tail_lines) ==
    IF tail_lines > 0
    THEN (IF Len(tail) = tail_lines THEN Tail(tail) ELSE tail) \o <<line>>
    ELSE tail

\* rx.recv_timeout gave Ok(event): the line and "\n" are pushed to the
\* buffer of its stream, and the line to the tail.
recv_event ==
    /\ call.op = "tail" /\ call.res = "pending" /\ call.rx # << >>
    /\ UNCHANGED fleetVars
    /\ LET event == Head(call.rx)
       IN  call' = [call EXCEPT
                       !.rx = Tail(@),
                       !.stderr_buf = IF event.is_stderr
                                      THEN @ \o <<event.line, "\n">> ELSE @,
                       !.stdout_buf = IF event.is_stderr THEN @
                                      ELSE @ \o <<event.line, "\n">>,
                       !.tail = PushTail(@, event.line, call.tail_lines),
                       !.arrived = Append(@, event.line)]

\* rx.recv_timeout gave Disconnected (both senders dropped, nothing left in
\* the channel): child.wait(), then Ok(stdout_buf) or the error with
\* stderr_buf.
recv_disconnected ==
    /\ call.op = "tail" /\ call.res = "pending"
    /\ call.rx = << >> /\ ~call.tx_out /\ ~call.tx_err
    /\ UNCHANGED fleetVars
    /\ \E success \in BOOLEAN :
        call' = [call EXCEPT !.res = IF success THEN "ok" ELSE "command_failed"]

NextTail ==
    \/ stdout_reader
    \/ stderr_reader
    \/ recv_event
    \/ recv_disconnected

SpecTail == InitTail /\ [][NextTail]_vars

-----------------------------------------------------------------------------
(* Reading the history of the current run_update *)

Idx(step) == {i \in DOMAIN trace : trace[i].step = step}

Count(step) == Cardinality(Idx(step))

CountEv(e) == Cardinality({i \in DOMAIN trace : trace[i] = e})

Failed(step) == CountEv(Ev(step, FALSE)) > 0

LogCount(ev) == Cardinality({i \in DOMAIN log : log[i].ev = ev})

LogHas(l) == \E i \in DOMAIN log : log[i] = l

\* run_update has returned for host cur (and no later host was started)
Returned == pc \in {"returned", "post", "done"} /\ ret # "pending"

Aborted == Returned /\ ret # "ok"

Completed == Returned /\ ret = "ok"

-----------------------------------------------------------------------------
(* C1 *)

\* C1: if the OS-update command fails, run_update aborts with an error: no
\* reboot, probe, application upgrade, version fetch or cleanup follows the
\* failure, the run returns an error and no Outcome, and os_updated and
\* server_rebooted keep their false defaults.
C1_OsUpdateFailureAborts ==
    \A i \in DOMAIN trace :
        trace[i] = Ev("os_update", FALSE) =>
            /\ \A j \in DOMAIN trace :
                 j > i => trace[j].step \notin
                     {"reboot", "sleep", "probe", "app_upgrade", "fetch_version",
                      "os_version", "os_version_fallback", "cleanup"}
            /\ pc \in {"rollback", "returned", "done"}
            /\ ret # "ok"
            /\ outcome = None
            /\ ~meta.os_updated /\ ~meta.server_rebooted

\* The part of C1 both implementations keep: the flags stay false.
C1_FlagsStayFalse ==
    Failed("os_update") => ~meta.os_updated /\ ~meta.server_rebooted

-----------------------------------------------------------------------------
(* C2 *)

\* C2: when the OS-update command fails and a rollback command is
\* configured, then once run_update has returned the rollback command was
\* invoked exactly once, the caller got the OS-update-failed error, and the
\* audit log holds no "success" line for the host.
C2_RollbackOnceErrorNoSuccess ==
    (env.rollback /\ Failed("os_update") /\ Returned) =>
        /\ Count("rollback") = 1
        /\ ret = "os_update_failed"
        /\ ~LogHas(Line("success", cur))

-----------------------------------------------------------------------------
(* C3 *)

\* C3: if the reboot command fails (after a successful OS update),
\* server_rebooted stays false, there is no grace sleep and no probe, and the
\* very next step is the application-upgrade command; the failed reboot
\* raises no error.
C3_RebootFailureSkipsWait ==
    \A i \in DOMAIN trace :
        trace[i] = Ev("reboot", FALSE) =>
            /\ i > 1 /\ trace[i - 1] = Ev("os_update", TRUE)
            /\ ~meta.server_rebooted
            /\ Count("sleep") = 0 /\ Count("probe") = 0
            /\ i = Len(trace) => (pc = "app_upgrade" /\ ret = "pending")
            /\ i < Len(trace) => trace[i + 1].step = "app_upgrade"
            /\ ret # "unreachable"
            /\ (outcome # None => ~outcome[1].server_rebooted)

C3_Witness ==
    /\ Failed("reboot")
    /\ CountEv(Ev("app_upgrade", TRUE)) = 1
    /\ Completed

-----------------------------------------------------------------------------
(* C4 *)

FailedProbesUpTo(i) ==
    Cardinality({j \in 1..i : trace[j] = Ev("probe", FALSE)})

\* C4: the wait aborts with the host-unreachable error iff 12 probes failed
\* after the grace sleep: never a 13th probe, never an abort after fewer
\* failures; a probe that succeeds as the k-th (k in 1..12) ends the wait
\* without error after exactly k probes; a failed probe before the 12th only
\* sleeps and probes again.
C4_AwaitOnlineTwelveProbes ==
    /\ Count("probe") <= 12
    /\ (ret = "unreachable") <=> (CountEv(Ev("probe", FALSE)) = 12)
    /\ ret = "unreachable" => (Aborted /\ CountEv(Ev("probe", TRUE)) = 0)
    /\ \A i \in Idx("probe") :
        /\ i > 1 /\ trace[i - 1].step = "sleep"
        /\ trace[i].ok =>
            /\ \A j \in Idx("probe") : j <= i
            /\ FailedProbesUpTo(i) = Count("probe") - 1
            /\ i = Len(trace) => (pc = "app_upgrade" /\ ret = "pending")
            /\ i < Len(trace) => trace[i + 1].step = "app_upgrade"
        /\ (~trace[i].ok /\ FailedProbesUpTo(i) < 12) =>
            /\ i < Len(trace) /\ trace[i + 1].step = "sleep"
            /\ i + 1 = Len(trace) => (pc = "probe" /\ ret = "pending")
    /\ \A i \in Idx("reboot") :
        (trace[i].ok /\ ~env.bypass) =>
            (i < Len(trace) /\ trace[i + 1].step = "sleep")

C4_Witness ==
    /\ pc = "returned"
    /\ ret = "unreachable"
    /\ CountEv(Ev("probe", FALSE)) = 12
    /\ Count("probe") = 12

\* The boundary case: eleven failures, then the twelfth probe succeeds.
C4_TwelfthProbeSucceeds ==
    /\ CountEv(Ev("probe", FALSE)) = 11
    /\ CountEv(Ev("probe", TRUE)) = 1
    /\ pc = "app_upgrade"

-----------------------------------------------------------------------------
(* C5 *)

\* C5: in sequential fleet mode, when host k is the first whose run_update
\* aborts, the audit log holds exactly k "starting" lines (hosts 1..k in
\* order), k-1 "success" lines and one "failed" line (for host k), no later
\* host is attempted and update_all returns the error.
C5_SequentialFailFastLog ==
    (name = "all" /\ pc = "done" /\ Aborted) =>
        /\ LogCount("starting") = cur
        /\ \A h \in 1..cur : LogHas(Line("starting", h))
        /\ LogCount("success") = cur - 1
        /\ \A h \in 1..(cur - 1) : LogHas(Line("success", h))
        /\ LogCount("failed") = 1
        /\ LogHas(Line("failed", cur))
        /\ result = ret

\* What C5 says, for the implementation that keeps an audit log (main.rs).
C5_MainSequentialFailFastLog == impl = "main" => C5_SequentialFailFastLog

-----------------------------------------------------------------------------
(* C9 *)

\* The stage of the i-th call of the run: version queries belong to
\* CollectBefore (1) before the OS update and to CollectAfter (6) once the
\* application upgrade has run; anywhere else they are out of order (0).
Rank(i) ==
    LET s == trace[i].step
    IN  IF s \in {"fetch_version", "os_version", "os_version_fallback"}
        THEN IF \A j \in 1..i : trace[j].step # "os_update" THEN 1
             ELSE IF \E j \in 1..i : trace[j].step = "app_upgrade" THEN 6
             ELSE 0
        ELSE IF s \in {"os_update", "rollback"} THEN 2
        ELSE IF s = "reboot" THEN 3
        ELSE IF s \in {"sleep", "probe"} THEN 4
        ELSE IF s = "app_upgrade" THEN 5
        ELSE 7

\* C9: the steps of one run execute in the order CollectBefore, OSUpdate,
\* Reboot, AwaitOnline, AppUpgrade, CollectAfter, Cleanup, and both
\* after-update facts (application version and OS version) have been
\* queried after AppUpgrade by the time the cleanup command runs.
C9_StepOrder ==
    /\ \A i, j \in DOMAIN trace : i < j => (Rank(i) # 0 /\ Rank(i) <= Rank(j))
    /\ \A c \in Idx("cleanup") :
        /\ \E i \in Idx("fetch_version") : i < c /\ Rank(i) = 6
        /\ \E i \in Idx("os_version") : i < c /\ Rank(i) = 6

-----------------------------------------------------------------------------
(* C10 *)

\* C10: in one run the OS-update, application-upgrade and cleanup commands
\* are each invoked at most once, and exactly once each in a run that
\* completes; a failed invocation is not retried.
C10_NoRetry ==
    /\ Count("os_update") <= 1
    /\ Count("app_upgrade") <= 1
    /\ Count("cleanup") <= 1
    /\ Completed =>
        /\ Count("os_update") = 1
        /\ Count("app_upgrade") = 1
        /\ Count("cleanup") = 1

C10_Witness ==
    /\ Completed
    /\ Count("os_update") = 1 /\ Count("app_upgrade") = 1 /\ Count("cleanup") = 1

-----------------------------------------------------------------------------
(* C6 *)

\* The targets the claim says are refused: empty, starting with '-', or
\* holding a whitespace character anywhere.
BadTarget(t) ==
    \/ t = << >>
    \/ StartsWith(t, <<"-">>)
    \/ \E i \in DOMAIN t : IsWhitespace(t[i])

\* C6: every remote command execution fails with the invalid-target error,
\* and starts no process, if and only if the target is empty, starts with
\* '-' or contains a whitespace character.
C6_TargetValidated ==
    (call.op = "ssh" /\ call.res # "pending") =>
        /\ (call.res = "invalid_target") <=> BadTarget(call.target)
        /\ BadTarget(call.target) => ~call.started

\* What commands/update.rs does keep: a target it accepts is not empty, does
\* not start with '-' once trimmed and has no whitespace inside.
C6_CmdRefusesTrimmedBad ==
    (call.op = "ssh" /\ call.res # "pending" /\ impl = "cmd") =>
        /\ (call.res = "invalid_target") <=> BadTarget(Trim(call.target))
        /\ call.res = "invalid_target" => ~call.started

-----------------------------------------------------------------------------
(* C7 *)

IsRunIdLine(l) == l[1] = "- Run-ID: "

-----------------------------------------------------------------------------
(* C8 *)

\* The text after the first occurrence of the marker in a line that holds it.
TextAfterMarker(line) ==
    SubSeq(line, FindFrom(line, Marker, 1) + Len(Marker), Len(line))

\* C8: parse_reclaimed_space returns the trimmed text that follows the
\* marker on the first line containing the marker, and None exactly when no
\* line contains it.
C8_ParseReclaimedSpace ==
    (call.op = "parse" /\ call.done) =>
        LET ls   == Split(call.input, <<"\n">>)
            hits == {i \in DOMAIN ls : Contains(ls[i], Marker)}
        IN  IF hits = {}
            THEN call.output = None
            ELSE LET first == CHOOSE i \in hits : \A j \in hits : i <= j
                 IN  call.output = Some(Trim(TextAfterMarker(ls[first])))

\* What the code does keep: C8 on every output whose first marker line holds
\* the marker once; and None exactly when no line holds the marker.
C8_SingleMarkerLines ==
    (call.op = "parse" /\ call.done) =>
        LET ls   == Split(call.input, <<"\n">>)
            hits == {i \in DOMAIN ls : Contains(ls[i], Marker)}
        IN  /\ (call.output = None) <=> (hits = {})
            /\ hits # {} =>
                LET first == CHOOSE i \in hits : \A j \in hits : i <= j
                IN  ~Contains(TextAfterMarker(ls[first]), Marker) =>
                        call.output = Some(Trim(TextAfterMarker(ls[first])))

-----------------------------------------------------------------------------
(* C11 *)

\* C11: if the application-upgrade command fails, run_update aborts with an
\* error: the failed command is the last call of the run, so no version
\* fetch and no cleanup follows it, the rollback command is not invoked in
\* that run, and the caller gets the error and no Outcome.
C11_AppUpgradeFailureAborts ==
    \A i \in DOMAIN trace :
        trace[i] = Ev("app_upgrade", FALSE) =>
            /\ i = Len(trace)
            /\ Count("rollback") = 0
            /\ Count("cleanup") = 0
            /\ \A j \in Idx("fetch_version") :
                 \A k \in 1..j : trace[k].step # "os_update"
            /\ Aborted
            /\ ret = "ssh_command_failed"
            /\ outcome = None

\* The upgrade fails after a successful OS update, with a rollback command
\* configured.
C11_Witness ==
    /\ Failed("app_upgrade")
    /\ CountEv(Ev("os_update", TRUE)) = 1
    /\ env.rollback
    /\ pc = "returned"

-----------------------------------------------------------------------------
(* C12 *)

\* The reboot command succeeded as the i-th call and the wait followed: the
\* grace sleep is the next call, and a probe lies between the reboot and
\* the application upgrade (once that has run or is about to run).
Awaited(i) ==
    /\ i < Len(trace) /\ trace[i + 1].step = "sleep"
    /\ pc = "app_upgrade" => \E j \in Idx("probe") : i < j
    /\ \A k \in Idx("app_upgrade") : \E j \in Idx("probe") : i < j /\ j < k

\* C12: whenever the reboot command succeeds, server_rebooted is set and the
\* grace sleep and at least one probe come before the application upgrade,
\* whatever the command overrides are set to.
C12_RebootSuccessAwaitsOnline ==
    \A i \in Idx("reboot") :
        trace[i].ok => (meta.server_rebooted /\ Awaited(i))

\* C12 as amended: whenever the reboot command succeeds, server_rebooted is
\* set; the grace sleep and at least one probe come before the application
\* upgrade unless DSC_SSH_OS_UPDATE_CMD is "echo OS packages updated", and
\* then the run goes to the application upgrade with no sleep and no probe.
C12_RebootSuccessAwaitsUnlessBypassed ==
    \A i \in Idx("reboot") :
        trace[i].ok =>
            /\ meta.server_rebooted
            /\ ~env.bypass => Awaited(i)
            /\ env.bypass =>
                /\ Count("sleep") = 0 /\ Count("probe") = 0
                /\ i = Len(trace) => pc = "app_upgrade"
                /\ i < Len(trace) => trace[i + 1].step = "app_upgrade"

\* A reboot that succeeded, three probes, and the upgrade has run.
C12_Witness ==
    /\ CountEv(Ev("reboot", TRUE)) = 1
    /\ ~env.bypass
    /\ Count("probe") = 3
    /\ Count("app_upgrade") = 1
    /\ meta.server_rebooted

-----------------------------------------------------------------------------
(* C13 *)

FactSteps == {"fetch_version", "os_version", "os_version_fallback"}

\* A failed lookup leaves its field absent: the first fetch, the OS-version
\* query before the update, the second fetch.
FailedLookupsDegrade ==
    /\ (trace # << >> /\ trace[1] = Ev("fetch_version", FALSE)) =>
            meta.before_version = None
    /\ (\E i \in Idx("os_version_fallback") :
            ~trace[i].ok /\ \A k \in 1..i : trace[k].step # "os_update") =>
            meta.before_os_version = None
    /\ (\E i \in Idx("fetch_version") :
            ~trace[i].ok /\ \E k \in 1..i : trace[k].step = "app_upgrade") =>
            meta.after_version = None

\* C13: fact collection never aborts a run: a run that has returned did run
\* the OS-update command (nothing before it stopped the run), a run never
\* aborts on a version or OS-version lookup or on preparing one, and a
\* failed lookup leaves its field absent.
C13_FactCollectionNeverAborts ==
    /\ Returned => Count("os_update") = 1
    /\ Aborted =>
        /\ ret # "client"
        /\ trace # << >> /\ trace[Len(trace)].step \notin FactSteps
    /\ FailedLookupsDegrade

\* What both implementations keep: the lookups themselves (fetch_version,
\* get_os_version) never abort the run; only DiscourseClient::new does.
C13_LookupsNeverAbort ==
    /\ (Returned /\ ret # "client") => Count("os_update") = 1
    /\ (Aborted /\ ret # "client") =>
        (trace # << >> /\ trace[Len(trace)].step \notin FactSteps)
    /\ FailedLookupsDegrade

-----------------------------------------------------------------------------
(* C14 *)

\* The calls of the run made after the application-upgrade command.
AfterUpgrade == {i \in DOMAIN trace : \E k \in Idx("app_upgrade") : k < i}

\* C14: in every completed run the OS version is queried again after the
\* application upgrade, and the Outcome's after_os_version is present
\* exactly when that query (or its fallback) gave a value; likewise the
\* application version is fetched a second time after the upgrade.
C14_AfterOsVersionQueried ==
    Completed =>
        /\ Idx("os_version") \cap AfterUpgrade # {}
        /\ (outcome[1].after_os_version # None) <=>
            (\E i \in AfterUpgrade :
                trace[i].step \in {"os_version", "os_version_fallback"} /\ trace[i].ok)
        /\ Idx("fetch_version") \cap AfterUpgrade # {}
        /\ Count("fetch_version") = 2

\* main.rs does query again (after the cleanup).
C14_MainAfterOsVersionQueried == impl = "main" => C14_AfterOsVersionQueried

-----------------------------------------------------------------------------
(* C15 *)

\* What the changelog publishing did for host h.
PubOf(h) == {i \in DOMAIN pub : pub[i].host = h}

\* C15: an Outcome exists only for a run that completed; when the run of a
\* host aborts there is no Outcome, no payload is built and no post is
\* created for that host, and the caller returns that error; whatever was
\* published, was published for a host whose run had completed.
C15_OutcomeOnlyWhenCompleted ==
    /\ outcome # None => Completed
    /\ Aborted =>
        /\ outcome = None
        /\ PubOf(cur) = {}
        /\ \A i \in DOMAIN posts : posts[i].host # cur
        /\ pc = "done" => result = ret
    /\ PubOf(cur) # {} => Completed
    /\ \A i \in DOMAIN pub : pub[i].host # cur => (name = "all" /\ pub[i].host < cur)

\* update_all with --post-changelog: the first host was published, the
\* second host's run aborted.
C15_Witness ==
    /\ name = "all" /\ post_changelog
    /\ pc = "done" /\ Aborted
    /\ cur = 2
    /\ Len(posts) = 1 /\ posts[1].host = 1

-----------------------------------------------------------------------------
(* C20 *)

\* C20: create_post is called only right after an affirmative answer to
\* the confirmation prompt for the same host, or with the non-interactive
\* override (DSC_TEST_MARKER) set, in update_one and in update_all alike;
\* and it is called at most once per host in a run.
C20_PostOnlyAfterConfirmation ==
    /\ \A i \in DOMAIN pub :
        pub[i].step = "create_post" =>
            \/ env.marker
            \/ i > 1 /\ pub[i - 1] = PubEv("confirm", pub[i].host, TRUE)
    /\ \A i, j \in DOMAIN pub :
        (pub[i].step = "create_post" /\ pub[j].step = "create_post"
            /\ pub[i].host = pub[j].host) => i = j

\* commands/update.rs keeps C20.
C20_CmdPostOnlyAfterConfirmation == impl = "cmd" => C20_PostOnlyAfterConfirmation

\* commands/update.rs does post, after a typed yes.
C20_CmdPostsAfterYes ==
    /\ impl = "cmd" /\ ~env.marker
    /\ \E i \in DOMAIN pub : pub[i] = PubEv("create_post", 1, TRUE)

-----------------------------------------------------------------------------
(* C18 *)

\* C18: if the log's path is a symbolic link when update_all starts, the run
\* fails before its first append: it never has the file open, it writes no
\* line to the file the link leads to, and it does not end well.
C18_NoWriteThroughSymlink ==
    file.symlink =>
        /\ file.at_open = None
        /\ log = << >>
        /\ \A i \in DOMAIN file.content : file.content[i].ev \in {"earlier", "other"}
        /\ pc = "done" => result # "ok"

-----------------------------------------------------------------------------
(* C19 *)

IsPrefix(p, q) == Len(p) <= Len(q) /\ SubSeq(q, 1, Len(p)) = p

OwnLine(l) == l.ev \notin {"earlier", "other"}

C19_OnlyGrows == [][IsPrefix(file.content, file.content')]_vars

-----------------------------------------------------------------------------
(* C16 *)

\* The hosts whose run has reached a terminal state: in a thread of the
\* thread-spawning code, or one after the other in the loop of update_all.
HostsRun ==
    {h \in Hosts : par.task[h] \in {"ok", "err"}}
        \cup (IF name = "all" /\ cur > 0
              THEN IF Returned THEN 1..cur ELSE 1..(cur - 1)
              ELSE {})

\* The hosts whose run, or changelog step, ended in an error.
HostsFailed ==
    {h \in Hosts : par.task[h] = "err"}
        \cup (IF name = "all" /\ pc = "done" /\ cur > 0 /\ result # "ok"
              THEN {cur} ELSE {})

\* C16: when update_all is called with concurrent set and has returned,
\* every configured host's run has reached a terminal state whatever the
\* other hosts did, the errors of all failed hosts are reported, and the
\* result is an error iff a host failed.
C16_ParallelRunsEveryHost ==
    (name = "all" /\ concurrent /\ pc = "done") =>
        /\ HostsRun = Hosts
        /\ result # "ok" => (HostsFailed # {} /\ par.reported = HostsFailed)
        /\ result = "ok" => HostsFailed = {}

\* What the thread-spawning code keeps: the error it returns is the error
\* of a host whose thread failed, and Ok means that every host's thread
\* was run and returned Ok.
C16_ThreadCodeFirstError ==
    (par.max # NoPar.max \/ par.next > 0) =>
        /\ par.reported \subseteq {h \in Hosts : par.task[h] = "err"}
        /\ Cardinality(par.reported) <= 1
        /\ (pc = "done" /\ result = "ok") =>
                \A h \in Hosts : par.task[h] = "ok"
        /\ (pc = "done" /\ result # "ok") => Cardinality(par.reported) = 1

\* The thread-spawning code returns the first host's error while the
\* second host's thread was never spawned.
C16_ThreadCodeLeavesHostOut ==
    /\ pc = "done" /\ par.reported = {1}
    /\ par.task[2] = "none"

\* The thread-spawning code returns one host's error though two failed.
C16_ThreadCodeDropsError ==
    /\ pc = "done" /\ Cardinality(par.reported) = 1
    /\ Cardinality({h \in Hosts : par.task[h] = "err"}) = 2

-----------------------------------------------------------------------------
(* C17 *)

C17_AtMostMaxRunningFromOne ==
    (par.max = None \/ max_threads >= 1) => Cardinality(Running) <= max_threads

\* The pool is full: max is 1, the first host's thread is running and the
\* loop is at the second host.
C17_PoolFull ==
    /\ par.max = Some(1)
    /\ par.next = 2
    /\ Cardinality(Running) = 1
    /\ pc = "par_loop"

-----------------------------------------------------------------------------
(* C24 *)

\* C24: when the rollback command fails (after a failed OS update), the run
\* still returns the OS-update failure and not the rollback's error, the
\* rollback was invoked once, and it is the last call of the run.
C24_RollbackFailureOnlyWarned ==
    \A i \in DOMAIN trace :
        trace[i] = Ev("rollback", FALSE) =>
            /\ i > 1 /\ trace[i - 1] = Ev("os_update", FALSE)
            /\ i = Len(trace)
            /\ Count("rollback") = 1
            /\ Aborted /\ ret = "os_update_failed"
            /\ pc = "done" => result = "os_update_failed"

C24_Witness ==
    /\ Failed("rollback")
    /\ pc = "done" /\ result = "os_update_failed"

-----------------------------------------------------------------------------
(* C28 *)

\* C28: if the cleanup command fails (after a successful application
\* upgrade), the run aborts with an error and no Outcome, nothing is
\* published for the host, and in update_all the host is logged as failed,
\* no later host is started and update_all returns the error.
C28_CleanupFailureAborts ==
    \A i \in DOMAIN trace :
        trace[i] = Ev("cleanup", FALSE) =>
            /\ CountEv(Ev("app_upgrade", TRUE)) = 1
            /\ i = Len(trace)
            /\ Aborted /\ outcome = None
            /\ PubOf(cur) = {}
            /\ pc = "done" =>
                /\ result = ret
                /\ name = "all" => (LogHas(Line("failed", cur))
                                    /\ ~LogHas(Line("success", cur))
                                    /\ \A h \in Hosts : h > cur => ~LogHas(Line("starting", h)))

\* What both implementations keep: all of C28 but the "failed" line, which
\* only main.rs writes.
C28_CleanupFailureAbortsButLog ==
    \A i \in DOMAIN trace :
        trace[i] = Ev("cleanup", FALSE) =>
            /\ CountEv(Ev("app_upgrade", TRUE)) = 1
            /\ i = Len(trace)
            /\ Aborted /\ outcome = None
            /\ PubOf(cur) = {}
            /\ pc = "done" =>
                /\ result = ret
                /\ (name = "all" /\ impl = "main") => LogHas(Line("failed", cur))
                /\ ~LogHas(Line("success", cur))

\* The first host's cleanup failed in update_all with a second host waiting.
C28_Reached ==
    /\ Failed("cleanup") /\ name = "all" /\ cur = 1 /\ pc = "done"
    /\ meta.os_updated

-----------------------------------------------------------------------------
(* C29 *)

\* C29: every Outcome of commands/update.rs has os_updated = true; in every
\* Outcome server_rebooted implies os_updated; and the status lines built
\* from an Outcome never show a rebooted server next to an OS update that
\* is not checked.
C29_RebootedImpliesOsUpdated ==
    outcome # None =>
        /\ impl = "cmd" => outcome[1].os_updated
        /\ outcome[1].server_rebooted => outcome[1].os_updated
        /\ LET ls == StatusLines(outcome, " -> ")
           IN  ~(/\ \E i \in DOMAIN ls : ls[i] = <<"- [ ] Ubuntu OS updated">>
                 /\ \E i \in DOMAIN ls : ls[i] = <<"- [x] Server rebooted">>)

\* An Outcome of main.rs after a failed OS update, and one after a reboot.
C29_Witness ==
    /\ outcome # None
    /\ impl = "main"
    /\ Failed("os_update")
    /\ ~outcome[1].os_updated /\ ~outcome[1].server_rebooted

C29_WitnessRebooted ==
    /\ outcome # None /\ outcome[1].server_rebooted /\ outcome[1].os_updated

-----------------------------------------------------------------------------
(* C30 *)

\* The position of line l in the log, 0 if it is not there.
LogPos(l) ==
    IF LogHas(l) THEN CHOOSE i \in DOMAIN log : log[i] = l ELSE 0

\* C30: in update_all with --post-changelog, when the run of host k
\* completed and the changelog step failed, the "success" line of k was
\* written, the "failed (changelog)" line of k follows it, no later host
\* was started, no "completed" line is written and update_all returns the
\* publishing error; and "completed" is written only when update_all
\* returns Ok after every host.
C30_PublishFailureStopsFleet ==
    /\ (name = "all" /\ post_changelog /\ pc = "done" /\ Completed
            /\ result # "ok") =>
        /\ LogHas(Line("success", cur))
        /\ LogHas(Line("failed_changelog", cur))
        /\ LogPos(Line("success", cur)) < LogPos(Line("failed_changelog", cur))
        /\ LogPos(Line("failed_changelog", cur)) = Len(log)
        /\ \A h \in Hosts : h > cur => ~LogHas(Line("starting", h))
        /\ ~LogHas(Line("completed", 0))
        /\ result \in {"no_topic", "create_failed", "confirm_io"}
    /\ LogHas(Line("completed", 0)) =>
        (pc = "done" /\ result = "ok" /\ cur = NumHosts)

\* main.rs keeps C30.
C30_MainPublishFailureStopsFleet == impl = "main" => C30_PublishFailureStopsFleet

\* What commands/update.rs keeps of it: update_all returns the publishing
\* error and starts no later host.
C30_CmdPublishFailureStopsFleet ==
    (impl = "cmd" /\ name = "all" /\ post_changelog /\ pc = "done" /\ Completed
        /\ result # "ok") =>
        /\ cur \in Hosts
        /\ result \in {"create_failed", "confirm_io"}
        /\ PubOf(cur) # {}

C30_Reached ==
    /\ name = "all" /\ post_changelog /\ pc = "done" /\ Completed
    /\ result = "create_failed" /\ cur = 1

-----------------------------------------------------------------------------
(* C21 *)

\* C21: every call of create_post made by update_all leaves a line in the
\* audit log: a line with the post identifier after a created post, a
\* "failed <host> (changelog)" line with the error after a failed one.
C21_PostAttemptsLogged ==
    name = "all" =>
        \A i \in DOMAIN pub :
            pub[i].step = "create_post" =>
                IF pub[i].ok
                THEN LogHas(Line("posted", pub[i].host))
                ELSE LogHas(Line("failed_changelog", pub[i].host))

\* What main.rs keeps of it: a failed post is logged.
C21_MainFailedPostLogged ==
    (name = "all" /\ impl = "main") =>
        \A i \in DOMAIN pub :
            (pub[i].step = "create_post" /\ ~pub[i].ok) =>
                /\ LogHas(Line("failed_changelog", pub[i].host))
                /\ log[Len(log)] = Line("failed_changelog", pub[i].host)

\* main.rs created a post and went on: the log ends otherwise.
C21_MainPostedUnlogged ==
    /\ name = "all" /\ impl = "main"
    /\ Len(posts) = 1 /\ posts[1].host = 1
    /\ log # << >> /\ log[Len(log)] = Line("starting", 2)

-----------------------------------------------------------------------------
(* C26 *)

\* body has a line that begins with the piece `item`
HasItem(body, item) == \E k \in DOMAIN body : body[k][1] = item

\* C26: in every payload each of the four items is checked exactly when its
\* fact holds: the OS update iff os_updated, the reboot iff
\* server_rebooted, the version iff after_version is known, the reclaimed
\* space iff reclaimed_space is known; with no Outcome no fact holds.
C26_ItemsCheckedIffFact ==
    call.op = "payload" =>
        \A i \in DOMAIN call.payloads :
            LET body == call.payloads[i]
                md   == call.metadata
            IN  /\ HasItem(body, "- [x] Ubuntu OS updated")
                        <=> (md # None /\ md[1].os_updated)
                /\ HasItem(body, "- [x] Server rebooted")
                        <=> (md # None /\ md[1].server_rebooted)
                /\ HasItem(body, "- [x] Updated Discourse to version ")
                        <=> (md # None /\ md[1].after_version # None)
                /\ HasItem(body, "- [x] ./launcher cleanup Total reclaimed space: ")
                        <=> (md # None /\ md[1].reclaimed_space # None)

\* What the code keeps of it: with an Outcome, the OS-update and reboot
\* items are checked exactly when the flags are set, and unchecked otherwise.
C26_StatusItemsFollowOutcome ==
    (call.op = "payload" /\ call.metadata # None) =>
        \A i \in DOMAIN call.payloads :
            LET body == call.payloads[i]
                m    == call.metadata[1]
            IN  /\ HasItem(body, "- [x] Ubuntu OS updated") <=> m.os_updated
                /\ HasItem(body, "- [ ] Ubuntu OS updated") <=> ~m.os_updated
                /\ HasItem(body, "- [x] Server rebooted") <=> m.server_rebooted
                /\ HasItem(body, "- [ ] Server rebooted") <=> ~m.server_rebooted

\* The version and reclaimed-space items are checked in every payload.
C26_FactItemsAlwaysChecked ==
    call.op = "payload" =>
        \A i \in DOMAIN call.payloads :
            /\ HasItem(call.payloads[i], "- [x] Updated Discourse to version ")
            /\ HasItem(call.payloads[i],
                       "- [x] ./launcher cleanup Total reclaimed space: ")

\* A payload with the reclaimed space "unknown" behind a checked item.
C26_UnknownChecked ==
    /\ call.op = "payload" /\ call.payloads # << >>
    /\ call.metadata # None /\ call.metadata[1].reclaimed_space = None
    /\ \E k \in DOMAIN call.payloads[1] :
        call.payloads[1][k] =
            <<"- [x] ./launcher cleanup Total reclaimed space: ", "unknown">>

-----------------------------------------------------------------------------
(* C22 *)

\* The hosts of a run that returned Ok.
HostsDone == IF name = "all" THEN Hosts ELSE {cur}

\* Host h has what publishing needs: no check of its changelog topic id or
\* of its api credentials found them missing.
Configured(h) ==
    \A i \in PubOf(h) : pub[i].step \in {"topic_id", "credentials"} => pub[i].ok

\* After a run with --post-changelog that returned Ok: with the marker set,
\* every host (that has a changelog topic and credentials) has exactly one
\* post, its body has the Run-ID line of the marker, and stdout has the line
\* `prefix` followed by the post id; with no marker, stdout has no line
\* beginning with `prefix`.
MarkerEchoed(prefix) ==
    (pc = "done" /\ result = "ok" /\ post_changelog) =>
        /\ env.marker =>
            \A h \in HostsDone :
                Configured(h) =>
                    \E i \in DOMAIN posts :
                        /\ posts[i].host = h
                        /\ \A j \in DOMAIN posts : posts[j].host = h => j = i
                        /\ posts[i].run_id = <<<<"- Run-ID: ", test_marker[1]>>>>
                        /\ \E k \in DOMAIN stdout : stdout[k] = <<prefix, i>>
        /\ ~env.marker =>
            \A k \in DOMAIN stdout : stdout[k][1] # prefix

\* C22 as stated: the post id is echoed as TEST_POST_ID=<id>.
C22_EchoedAsTestPostId == MarkerEchoed("TEST_POST_ID=")

\* C22, amended: an update (one host or all) run with --post-changelog and
\* a run marker, every step succeeding, creates exactly one post per host on
\* the host's changelog topic, the body contains the marker, and the post id
\* is echoed on stdout as DSC_TEST_POST_ID=<id>; with no marker no such line
\* is echoed.
C22_EchoedAsDscTestPostId == MarkerEchoed("DSC_TEST_POST_ID=")

\* update all with the marker: both hosts posted, both ids echoed.
C22_Witness ==
    /\ name = "all" /\ post_changelog /\ env.marker
    /\ pc = "done" /\ result = "ok"
    /\ Len(posts) = NumHosts
    /\ stdout = [i \in 1..NumHosts |-> <<"DSC_TEST_POST_ID=", i>>]

\* A post made without the marker (after a typed yes, or by main.rs).
C22_WitnessNoMarker ==
    /\ post_changelog /\ ~env.marker
    /\ pc = "done" /\ result = "ok"
    /\ posts # << >> /\ stdout = << >>

-----------------------------------------------------------------------------
(* C27 *)

\* C27: update_all called with concurrent = true returns the error with no
\* host entered, no remote command run, nothing published and no log
\* opened; and no run is ever in the thread-spawning code.
C27_ConcurrentRefused ==
    /\ (name = "all" /\ concurrent) =>
        /\ pc \in {"start", "done"}
        /\ pc = "done" => result = "concurrent_disabled"
        /\ cur = 0 /\ trace = << >> /\ ret = "pending" /\ outcome = None
        /\ pub = << >> /\ posts = << >> /\ stdout = << >>
        /\ log = << >> /\ file = NoFile
    /\ pc \notin {"par_loop", "par_join_popped", "par_join_rest"}
    /\ par = NoPar

C27_Witness ==
    /\ name = "all" /\ concurrent
    /\ pc = "done" /\ result = "concurrent_disabled"

\* --max without --concurrent is refused by main().
C27_MaxRequiresConcurrent ==
    /\ impl = "main" /\ name = "all" /\ ~concurrent
    /\ pc = "done" /\ result = "max_requires_concurrent"

-----------------------------------------------------------------------------
(* C23 *)

\* The call that made the run of host cur abort: the last call of the run
\* (the OS update when a rollback followed it; DiscourseClient::new when
\* nothing was called yet).
FailingStep ==
    IF trace = << >> THEN "new_client"
    ELSE IF trace[Len(trace)].step = "rollback" THEN "os_update"
    ELSE trace[Len(trace)].step

\* The step that the words of an error message name.
StepNamed(t) ==
    CASE t.fmt = "OS update failed for {}: {}" -> "os_update"
      [] t.fmt = "Server did not come back online after reboot" -> "probe"
      [] OTHER -> "none"

\* C23: every error that run_update returns names the host and the step
\* that failed (so errors of different steps differ), and no error comes
\* from a version lookup or from the reboot command.
C23_ErrorsNameHostAndStep ==
    Aborted =>
        /\ ErrorTexts(ret, cur) # {}
        /\ \A t \in ErrorTexts(ret, cur) :
            /\ t.target = Some(cur)
            /\ StepNamed(t) = FailingStep
        /\ FailingStep \notin FactSteps \cup {"reboot"}

\* What the code keeps of it: every abort has a message, the message of a
\* failed OS update in commands/update.rs names host and step, the message
\* of the wait loop names the step, and degradations are not errors.
C23_WhatErrorsName ==
    Aborted =>
        /\ ErrorTexts(ret, cur) # {}
        /\ FailingStep \notin FactSteps \cup {"reboot"}
        /\ \A t \in ErrorTexts(ret, cur) :
            /\ FailingStep = "os_update" =>
                (t.target = Some(cur) /\ StepNamed(t) = "os_update")
            /\ FailingStep = "probe" => (t.target = None /\ StepNamed(t) = "probe")
            /\ FailingStep \in {"app_upgrade", "cleanup"} =>
                (t.target = Some(cur) /\ StepNamed(t) = "none")
            /\ FailingStep = "new_client" => (t.target = None /\ StepNamed(t) = "none")

\* A failed cleanup and a failed application upgrade give the same error.
C23_CleanupFailed ==
    /\ Aborted /\ Failed("cleanup")
    /\ ErrorTexts(ret, cur) = ErrorTexts("ssh_command_failed", cur)

C23_AppUpgradeFailed ==
    /\ Aborted /\ Failed("app_upgrade")
    /\ ErrorTexts(ret, cur) = ErrorTexts("ssh_command_failed", cur)

-----------------------------------------------------------------------------
(* C25 *)

\* The last n elements of sq.
LastN(sq, n) == SubSeq(sq, Len(sq) - n + 1, Len(sq))

Min(a, b) == IF a <= b THEN a ELSE b

\* Each line followed by "\n".
WithNewlines(ls) ==
    [i \in 1..(2 * Len(ls)) |-> IF i % 2 = 1 THEN ls[(i + 1) \div 2] ELSE "\n"]

\* C25: in run_ssh_command_with_tail, whatever the interleaving of the two
\* readers and whatever tail_lines: the tail has at most tail_lines lines
\* and is the last min(tail_lines, lines received) lines received, in
\* order; the Ok value is every line the command wrote to stdout, in order;
\* the error of a non-zero exit carries every line it wrote to stderr.
C25_TailBoundedOutputFull ==
    call.op = "tail" =>
        /\ Len(call.tail) <= call.tail_lines
        /\ call.tail = LastN(call.arrived, Min(call.tail_lines, Len(call.arrived)))
        /\ call.res = "ok" => call.stdout_buf = WithNewlines(call.out)
        /\ call.res = "command_failed" => call.stderr_buf = WithNewlines(call.err)

\* What the code keeps of it: the tail part always, and the full output
\* when every line the command writes is valid UTF-8.
C25_TailBoundedOutputFullIfUtf8 ==
    call.op = "tail" =>
        /\ Len(call.tail) <= call.tail_lines
        /\ call.tail = LastN(call.arrived, Min(call.tail_lines, Len(call.arrived)))
        /\ (\A i \in DOMAIN call.out : call.out[i] # Invalid) =>
            (call.res # "pending" => call.stdout_buf = WithNewlines(call.out))
        /\ (\A i \in DOMAIN call.err : call.err[i] # Invalid) =>
            (call.res # "pending" => call.stderr_buf = WithNewlines(call.err))

\* The tail has dropped lines that the buffers kept.
C25_TailFull ==
    /\ call.op = "tail" /\ call.res = "ok"
    /\ call.tail_lines = 1 /\ Len(call.arrived) = 4
    /\ call.tail = <<call.arrived[4]>>
    /\ call.stdout_buf = WithNewlines(call.out)

\* Ok is returned without the lines from the invalid one on.
C25_LinesLost ==
    /\ call.op = "tail" /\ call.res = "ok"
    /\ call.out = <<Invalid, "a">>
    /\ call.stdout_buf = << >>

====
